---- MODULE Spec2Model ----
(***************************************************************************)
(* Model of the HBNB object persistence layer: the record base contract    *)
(* (models/base_model.py), the file storage engine                         *)
(* (models/engine/file_storage.py) and the command interpreter             *)
(* (console.py).                                                           *)
(*                                                                         *)
(* Representation.                                                         *)
(*  - A string key "Class.id" is the tuple <<Class, ".", id>>; a file key  *)
(*    of any other form is a tuple of another shape.                       *)
(*  - A datetime is an integer instant.  An ISO-8601 string is a record    *)
(*    [t, sp]: the instant it denotes and its spelling.  isoformat() only  *)
(*    writes the spelling "canon"; "alt" is any other valid spelling of    *)
(*    the same instant (e.g. a zero microsecond part written out), "bad"   *)
(*    is a string fromisoformat() rejects.                                 *)
(*  - An instance is [cls, attrs]: its Python class and its __dict__, a    *)
(*    function from attribute names to values.  A transport dict (the      *)
(*    result of to_dict(), a JSON value of the file, constructor kwargs)   *)
(*    is a function from key names to values.                              *)
(*  - __objects and the JSON document are insertion-ordered: sequences of  *)
(*    [key, obj] and [key, d] with pairwise distinct keys.                 *)
(*  - datetime.utcnow() reads the variable now, which never decreases.     *)
(***************************************************************************)
EXTENDS Integers, Sequences, FiniteSets, TLC

VARIABLES
    objects,     \* FileStorage.__objects: sequence of [key, obj]
    file,        \* the storage file: [kind, doc]
    tmp,         \* a record the caller holds that is not (yet) registered
    wire,        \* a transport dict the caller holds
    now,         \* the wall clock read by datetime.utcnow()
    err,         \* outcome of the last operation: "ok" or the exception raised
    last,        \* the last operation executed: [op, key, flag]
    hist,        \* history variables (observations used by the properties)
    proc,        \* the interpreter process: [at, reloads, used]
    out          \* what the last shell command printed: sequence of tokens

vars == <<objects, file, tmp, wire, now, err, last, hist, proc, out>>

----------------------------------------------------------------------------
(* Bounds *)

MaxClock == 2

----------------------------------------------------------------------------
(* Program constants and input domains *)

\* the dispatch table of reload()
classes == {"BaseModel", "User", "State", "City", "Place", "Amenity", "Review"}

\* the classes instantiated without arguments, and from a dict
NewClasses == {"BaseModel"}
DictClasses == {"User"}
\* the __class__ values of hand-written dicts and files; "Ghost" is in no
\* dispatch table
FileClasses == DictClasses \cup {"Ghost"}

\* pool of uuid4() results
Uuids == {"u2"}
\* ids occurring in hand-written dicts and files
InputIds == {"u1"}

\* values of the custom attribute "name"
Values == {"v1"}

----------------------------------------------------------------------------
(* Sequence helpers *)

Keys(seq) == {seq[i].key : i \in 1..Len(seq)}

IndexOf(seq, k) == CHOOSE i \in 1..Len(seq) : seq[i].key = k

Lookup(seq, k) == seq[IndexOf(seq, k)]

Remove(seq, k) == SelectSeq(seq, LAMBDA e : e.key # k)

DistinctKeys(seq) == \A i, j \in 1..Len(seq) : seq[i].key = seq[j].key => i = j

----------------------------------------------------------------------------
(* datetime conversions *)

isoformat(t) == [t |-> t, sp |-> "canon"]

ValidIso(s) == s.sp # "bad"

fromisoformat(s) == s.t

----------------------------------------------------------------------------
(* Record base contract: models/base_model.py *)

TimeKeys == {"created_at", "updated_at"}

\* BaseModel.__init__(**kwargs), kwargs non-empty: whether it raises ValueError
InitRaises(kwargs) ==
    \E k \in DOMAIN kwargs \cap TimeKeys : ~ValidIso(kwargs[k])

\* mutant: the key __class__ is not skipped
InitFromDict_keepClass(cls, kwargs) ==
    [cls |-> cls,
     attrs |-> [k \in DOMAIN kwargs |->
                   IF k \in TimeKeys THEN kwargs[k].t ELSE kwargs[k]]]

\* mutant: only the three base attributes are taken from kwargs
InitFromDict_baseOnly(cls, kwargs) ==
    [cls |-> cls,
     attrs |-> [k \in (DOMAIN kwargs) \cap {"id", "created_at", "updated_at"} |->
                   IF k \in TimeKeys THEN kwargs[k].t ELSE kwargs[k]]]

\* BaseModel.__init__(**kwargs), kwargs non-empty: the instance built
InitFromDict(cls, kwargs) ==
    [cls |-> cls,
     attrs |-> [k \in DOMAIN kwargs \ {"__class__"} |->
                   IF k \in TimeKeys THEN fromisoformat(kwargs[k])
                                     ELSE kwargs[k]]]

\* mutant: the two timestamps are assigned in the other order
InitNew_swapped(cls, id, t1, t2) ==
    [cls |-> cls,
     attrs |-> ("id" :> id) @@ ("created_at" :> t2) @@ ("updated_at" :> t1)]

\* BaseModel.__init__(), no kwargs: id from uuid4(), two reads of the clock
InitNew(cls, id, t1, t2) ==
    [cls |-> cls,
     attrs |-> ("id" :> id) @@ ("created_at" :> t1) @@ ("updated_at" :> t2)]

\* BaseModel.to_dict()
to_dict(obj) ==
    [k \in DOMAIN obj.attrs \cup {"__class__"} |->
        IF k = "__class__" THEN obj.cls
        ELSE IF k \in TimeKeys THEN isoformat(obj.attrs[k])
        ELSE obj.attrs[k]]

\* setattr(obj, name, value)
SetAttrOf(obj, name, value) ==
    [obj EXCEPT !.attrs =
        [k \in DOMAIN obj.attrs \cup {name} |->
            IF k = name THEN value ELSE obj.attrs[k]]]

\* mutant: save() copies created_at
Touch_created(obj, t) == SetAttrOf(obj, "updated_at", obj.attrs["created_at"])

\* the first statement of BaseModel.save(): self.updated_at = utcnow()
Touch(obj, t) == SetAttrOf(obj, "updated_at", t)

----------------------------------------------------------------------------
(* Storage engine: models/engine/file_storage.py *)

\* mutant: the key is made with the name of the base class
NewKey_baseName(obj) == <<"BaseModel", ".", obj.attrs["id"]>>

\* the key FileStorage.new() derives
NewKey(obj) == <<obj.cls, ".", obj.attrs["id"]>>

\* mutant: an existing entry is kept
new_keepFirst(objs, obj) ==
    IF NewKey(obj) \in Keys(objs) THEN objs
    ELSE Append(objs, [key |-> NewKey(obj), obj |-> obj])

\* FileStorage.new(obj) on the mapping objs: insert, or overwrite in place
new(objs, obj) ==
    LET key == NewKey(obj) IN
    IF key \in Keys(objs)
    THEN [objs EXCEPT ![IndexOf(objs, key)] = [key |-> key, obj |-> obj]]
    ELSE Append(objs, [key |-> key, obj |-> obj])

\* mutant: the dump happens inside the loop, after the first record
SaveDoc_first(objs) ==
    [i \in 1..(IF Len(objs) > 0 THEN 1 ELSE 0) |->
        [key |-> objs[i].key, d |-> to_dict(objs[i].obj)]]

\* the document FileStorage.save() dumps
SaveDoc(objs) ==
    [i \in 1..Len(objs) |-> [key |-> objs[i].key, d |-> to_dict(objs[i].obj)]]

\* mutant: the file is opened for update and the old entries of other keys stay
SavedFile_merge(objs, f) ==
    [kind |-> "json",
     doc |-> SaveDoc(objs) \o
             (IF f.kind = "json"
              THEN SelectSeq(f.doc, LAMBDA e : e.key \notin Keys(objs))
              ELSE <<>>)]

\* FileStorage.save(): the file after open(..., "w"), which truncates the old
\* file f, and json.dump
SavedFile(objs, f) == [kind |-> "json", doc |-> SaveDoc(objs)]

\* one iteration of the loop of reload(): the exception it raises, if any
EntryError(e) ==
    IF e.d["__class__"] \notin classes THEN "KeyError"
    ELSE IF InitRaises(e.d) THEN "ValueError"
    ELSE "ok"

\* mutant: an entry of an unknown class is skipped
RECURSIVE ReloadLoop_skip(_, _, _)
ReloadLoop_skip(objs, doc, i) ==
    IF i > Len(doc) THEN [objs |-> objs, err |-> "ok"]
    ELSE IF EntryError(doc[i]) = "KeyError"
         THEN ReloadLoop_skip(objs, doc, i + 1)
    ELSE IF EntryError(doc[i]) # "ok"
         THEN [objs |-> objs, err |-> EntryError(doc[i])]
    ELSE ReloadLoop_skip(
            new(objs, InitFromDict(doc[i].d["__class__"], doc[i].d)),
            doc, i + 1)

\* mutant: the record is stored under the key it has in the file
RECURSIVE ReloadLoop_verbatim(_, _, _)
ReloadLoop_verbatim(objs, doc, i) ==
    IF i > Len(doc) THEN [objs |-> objs, err |-> "ok"]
    ELSE IF EntryError(doc[i]) # "ok"
         THEN [objs |-> objs, err |-> EntryError(doc[i])]
    ELSE ReloadLoop_verbatim(
            LET e == [key |-> doc[i].key,
                      obj |-> InitFromDict(doc[i].d["__class__"], doc[i].d)] IN
            IF e.key \in Keys(objs)
            THEN [objs EXCEPT ![IndexOf(objs, e.key)] = e]
            ELSE Append(objs, e),
            doc, i + 1)

\* the loop of reload() over doc[i..], starting from the mapping objs
RECURSIVE ReloadLoop(_, _, _)
ReloadLoop(objs, doc, i) ==
    IF i > Len(doc) THEN [objs |-> objs, err |-> "ok"]
    ELSE IF EntryError(doc[i]) # "ok"
         THEN [objs |-> objs, err |-> EntryError(doc[i])]
    ELSE ReloadLoop(new(objs, InitFromDict(doc[i].d["__class__"], doc[i].d)),
                    doc, i + 1)

\* mutant: the missing file is not caught
reload_noCatch(objs, f) ==
    IF f.kind = "absent" THEN [objs |-> objs, err |-> "FileNotFoundError"]
    ELSE IF f.kind = "garbage" THEN [objs |-> objs, err |-> "JSONDecodeError"]
    ELSE ReloadLoop(objs, f.doc, 1)

\* FileStorage.reload(): the mapping afterwards and the exception raised
reload(objs, f) ==
    IF f.kind = "absent" THEN [objs |-> objs, err |-> "ok"]
    ELSE IF f.kind = "garbage" THEN [objs |-> objs, err |-> "JSONDecodeError"]
    ELSE ReloadLoop(objs, f.doc, 1)

----------------------------------------------------------------------------
(* Inputs: hand-written dicts and the storage file left by an earlier run *)

\* ISO strings occurring in inputs: the present, a later instant in another
\* spelling, and a string that is no timestamp
InputIso == {[t |-> 1, sp |-> "canon"], [t |-> 2, sp |-> "alt"],
             [t |-> 0, sp |-> "bad"]}

\* a transport dict with the keys the constructor documents
MkDict(c, id, ca, ua) ==
    ("__class__" :> c) @@ ("id" :> id) @@ ("created_at" :> ca)
        @@ ("updated_at" :> ua)

InputDicts ==
    {MkDict(c, id, ca, ua) :
        c \in DictClasses, id \in InputIds, ca \in InputIso, ua \in InputIso}
    \cup {MkDict(c, id, s1, s1) @@ ("name" :> v) :
        c \in FileClasses, id \in InputIds,
        s1 \in {[t |-> 1, sp |-> "canon"]}, v \in Values}

\* the key a well-formed file gives the entry, and a key of another form
FileKeysOf(d) == {<<d["__class__"], ".", d["id"]>>, <<"k0">>}

FileEntries ==
    {[key |-> k, d |-> d] :
        k \in {<<c, ".", id>> : c \in FileClasses, id \in InputIds}
                 \cup {<<"k0">>},
        d \in {MkDict(c, id, ca, ua) :
                 c \in FileClasses, id \in InputIds,
                 ca \in InputIso, ua \in InputIso}}

WellKeyed(e) == e.key \in FileKeysOf(e.d)

\* entries of the two-entry files: updated now, created now or unreadable
Plain(e) ==
    /\ e.d["updated_at"] = [t |-> 1, sp |-> "canon"]
    /\ e.d["created_at"].sp # "alt"

InitDocs ==
    {<<>>}
    \cup {<<e>> : e \in {x \in FileEntries : WellKeyed(x)}}
    \cup {<<e1, e2>> : e1 \in {x \in FileEntries : WellKeyed(x) /\ Plain(x)},
                       e2 \in {x \in FileEntries : WellKeyed(x) /\ Plain(x)}}

InitFiles ==
    {[kind |-> "absent", doc |-> <<>>], [kind |-> "garbage", doc |-> <<>>]}
    \cup {[kind |-> "json", doc |-> doc] :
             doc \in {x \in InitDocs : DistinctKeys(x)}}

----------------------------------------------------------------------------
(* History variables *)

\* the timestamps of a transport dict the constructor accepts
CreatedInOrder(d, t) ==
    d["created_at"].t <= d["updated_at"].t /\ d["created_at"].t <= t

UpdatedInPast(d, t) == d["updated_at"].t <= t

\* the file's entry for key k holds the value v of the attribute "name"
FileHolds(f, k, v) ==
    /\ f.kind = "json"
    /\ k \in Keys(f.doc)
    /\ "name" \in DOMAIN Lookup(f.doc, k).d
    /\ Lookup(f.doc, k).d["name"] = v

\* index of the first entry at which the loop of reload() raises
FirstBad(doc) ==
    IF \E i \in 1..Len(doc) : EntryError(doc[i]) # "ok"
    THEN CHOOSE i \in 1..Len(doc) :
            /\ EntryError(doc[i]) # "ok"
            /\ \A j \in 1..(i - 1) : EntryError(doc[j]) = "ok"
    ELSE Len(doc) + 1

\* the keys reload() writes when run on file f
ReloadedKeys(f) ==
    IF f.kind # "json" THEN {}
    ELSE {NewKey(InitFromDict(f.doc[i].d["__class__"], f.doc[i].d)) :
             i \in 1..(FirstBad(f.doc) - 1)}

Loadable(f) ==
    IF f.kind # "json" THEN {}
    ELSE {f.doc[i].d : i \in {j \in 1..Len(f.doc) : EntryError(f.doc[j]) = "ok"}}

\* the key whose deletion and mutation the history variables follow
Watched == <<"User", ".", "u1">>

HistInit(f, t) ==
    [gone |-> "no",        \* Watched was deleted: "no", "pending", "flushed"
     dirtyRec |-> FALSE,   \* Watched mutated, no save() of that record since
     dirtyEng |-> FALSE,   \* Watched mutated, no save() of the engine since
     createdOk |-> \A d \in Loadable(f) : CreatedInOrder(d, t),
     updatedOk |-> \A d \in Loadable(f) : UpdatedInPast(d, t)]

\* history after a flush of the whole mapping
HistFlush(h) ==
    [h EXCEPT !.gone = IF h.gone = "pending" THEN "flushed" ELSE h.gone,
              !.dirtyEng = FALSE]

\* history after the entries at the keys ks were replaced by other objects
HistReplace(h, ks) ==
    IF Watched \in ks
    THEN [h EXCEPT !.gone = "no", !.dirtyRec = FALSE, !.dirtyEng = FALSE]
    ELSE h

\* history after reload() wrote the keys ks: a deletion that was not flushed
\* is undone, a flushed one stays on record
HistReload(h, ks) ==
    IF Watched \in ks
    THEN [h EXCEPT !.gone = IF h.gone = "pending" THEN "no" ELSE h.gone,
                   !.dirtyRec = FALSE, !.dirtyEng = FALSE]
    ELSE h

NoKey == <<>>

\* the library used without the shell: no console process
NoShell == [at |-> "lib", reloads |-> 0, used |-> FALSE]

Did(op, key, flag) == [op |-> op, key |-> key, flag |-> flag]

----------------------------------------------------------------------------
(* State machine *)

Init ==
    /\ objects = <<>>
    /\ file \in InitFiles
    /\ tmp = <<>>
    /\ wire = <<>>
    /\ now = 1
    /\ err = "ok"
    /\ last = Did("init", NoKey, FALSE)
    /\ hist = HistInit(file, now)
    /\ proc = NoShell
    /\ out = <<>>

\* time passes
Tick ==
    /\ now < MaxClock
    /\ now' = now + 1
    /\ last' = Did("tick", NoKey, FALSE)
    /\ UNCHANGED <<objects, file, tmp, wire, err, hist, proc, out>>

\* the process ends and a new one starts: class attribute __objects = {}
Restart ==
    /\ objects' = <<>>
    /\ tmp' = <<>>
    /\ wire' = <<>>
    /\ err' = "ok"
    /\ last' = Did("restart", NoKey, FALSE)
    /\ hist' = [hist EXCEPT
          !.gone = IF hist.gone = "pending" THEN "no" ELSE hist.gone,
          !.dirtyRec = FALSE, !.dirtyEng = FALSE]
    /\ UNCHANGED <<file, now, proc, out>>

\* storage.reload()
Reload ==
    LET res == reload(objects, file) IN
    /\ objects' = res.objs
    /\ err' = res.err
    /\ last' = Did("reload", NoKey, objects = <<>>)
    /\ hist' = HistReload(hist, ReloadedKeys(file))
    /\ UNCHANGED <<file, tmp, wire, now, proc, out>>

\* cls(): Construct-new, registers itself through storage.new()
ConstructNew(cls, id) ==
    \E t2 \in {now, now + 1} :
        LET obj == InitNew(cls, id, now, t2) IN
        /\ t2 <= MaxClock
        /\ \A i \in 1..Len(objects) : objects[i].obj.attrs["id"] # id
        /\ file.kind = "json" =>
              \A i \in 1..Len(file.doc) : file.doc[i].d["id"] # id
        /\ objects' = new(objects, obj)
        /\ now' = t2
        /\ err' = "ok"
        /\ last' = Did("construct", NewKey(obj), FALSE)
        /\ hist' = HistReplace(hist, {NewKey(obj)})
        /\ UNCHANGED <<file, tmp, wire, proc, out>>

\* mutant: the registration is outside the else branch
ConstructFromDict_registers(cls, kwargs) ==
    LET obj == InitFromDict(cls, kwargs) IN
    /\ ~InitRaises(kwargs)
    /\ objects' = new(objects, obj)
    /\ err' = "ok"
    /\ last' = Did("fromdict", NewKey(obj), NewKey(obj) \in Keys(objects))
    /\ UNCHANGED <<file, tmp, wire, now, hist, proc, out>>

\* cls(**kwargs): Construct-from-dict on its own; the caller drops the record
ConstructFromDict(cls, kwargs) ==
    LET obj == InitFromDict(cls, kwargs) IN
    /\ IF InitRaises(kwargs)
       THEN /\ err' = "ValueError"
            /\ last' = Did("fromdict", NoKey, FALSE)
       ELSE /\ err' = "ok"
            /\ last' = Did("fromdict", NewKey(obj),
                                       NewKey(obj) \in Keys(objects))
    /\ UNCHANGED <<objects, file, tmp, wire, now, hist, proc, out>>

\* storage.new(cls(**kwargs)): Construct-from-dict, then registration
NewFromDict(cls, kwargs) ==
    LET obj == InitFromDict(cls, kwargs)
        key == NewKey(obj) IN
    /\ IF InitRaises(kwargs)
       THEN /\ err' = "ValueError"
            /\ last' = Did("new", NoKey, FALSE)
            /\ UNCHANGED <<objects, hist>>
       ELSE /\ objects' = new(objects, obj)
            /\ err' = "ok"
            /\ last' = Did("new", key,
                     key \in Keys(objects) /\ Lookup(objects, key).obj # obj)
            /\ hist' = [HistReplace(hist, {key}) EXCEPT
                  !.createdOk = hist.createdOk /\ CreatedInOrder(kwargs, now),
                  !.updatedOk = hist.updatedOk /\ UpdatedInPast(kwargs, now)]
    /\ UNCHANGED <<file, tmp, wire, now, proc, out>>

\* mutant: the assignment also flushes the mapping
SetAttr_writeThrough(k, v) ==
    /\ k \in Keys(objects)
    /\ LET i == IndexOf(objects, k)
           obj == objects[i].obj IN
       /\ "name" \in DOMAIN obj.attrs => obj.attrs["name"] # v
       /\ objects' = [objects EXCEPT ![i].obj = SetAttrOf(obj, "name", v)]
    /\ file' = SavedFile(objects', file)
    /\ hist' = IF k # Watched THEN hist
               ELSE [hist EXCEPT !.dirtyRec = ~FileHolds(file, k, v),
                                 !.dirtyEng = ~FileHolds(file, k, v)]
    /\ err' = "ok"
    /\ last' = Did("setattr", k, FALSE)
    /\ UNCHANGED <<tmp, wire, now, proc, out>>

\* direct field assignment on a registered record: r.name = v
SetAttr(k, v) ==
    /\ k \in Keys(objects)
    /\ LET i == IndexOf(objects, k)
           obj == objects[i].obj IN
       /\ "name" \in DOMAIN obj.attrs => obj.attrs["name"] # v
       /\ objects' = [objects EXCEPT ![i].obj = SetAttrOf(obj, "name", v)]
    /\ hist' = IF k # Watched THEN hist
               ELSE [hist EXCEPT !.dirtyRec = ~FileHolds(file, k, v),
                                 !.dirtyEng = ~FileHolds(file, k, v)]
    /\ err' = "ok"
    /\ last' = Did("setattr", k, FALSE)
    /\ UNCHANGED <<file, tmp, wire, now, proc, out>>

\* r.save() on a registered record
RecordSave(k) ==
    /\ k \in Keys(objects)
    /\ LET i == IndexOf(objects, k) IN
       /\ objects' = [objects EXCEPT ![i].obj = Touch(objects[i].obj, now)]
       /\ last' = Did("rsave", k, objects[i].obj.attrs["updated_at"] > now)
    /\ file' = SavedFile(objects', file)
    /\ hist' = [HistFlush(hist) EXCEPT
                   !.dirtyRec = hist.dirtyRec /\ k # Watched]
    /\ err' = "ok"
    /\ UNCHANGED <<tmp, wire, now, proc, out>>

\* storage.save()
StorageSave ==
    /\ file' = SavedFile(objects, file)
    /\ hist' = HistFlush(hist)
    /\ err' = "ok"
    /\ last' = Did("save", NoKey, FALSE)
    /\ UNCHANGED <<objects, tmp, wire, now, proc, out>>

\* del storage.all()[k]
Delete(k) ==
    /\ k \in Keys(objects)
    /\ objects' = Remove(objects, k)
    /\ hist' = IF k # Watched THEN hist
               ELSE [hist EXCEPT !.gone = "pending",
                                 !.dirtyRec = FALSE, !.dirtyEng = FALSE]
    /\ err' = "ok"
    /\ last' = Did("delete", k, FALSE)
    /\ UNCHANGED <<file, tmp, wire, now, proc, out>>

Next ==
    \/ Tick
    \/ Restart
    \/ Reload
    \/ \E cls \in NewClasses, id \in Uuids : ConstructNew(cls, id)
    \/ \E cls \in DictClasses, kwargs \in InputDicts :
          NewFromDict(cls, kwargs)
    \/ \E k \in Keys(objects), v \in Values : SetAttr(k, v)
    \/ \E k \in Keys(objects) : RecordSave(k)
    \/ StorageSave
    \/ \E k \in Keys(objects) : Delete(k)

Spec == Init /\ [][Next]_vars

\* the storage files of at most one entry
ShortFiles == {f \in InitFiles : Len(f.doc) <= 1}

InitCtor ==
    /\ Init
    /\ file \in ShortFiles

\* the same operations, and records built from a dict that are not handed
\* to storage.new()
NextCtor ==
    \/ Next
    \/ \E cls \in DictClasses, kwargs \in InputDicts :
          ConstructFromDict(cls, kwargs)

CtorSpec == InitCtor /\ [][NextCtor]_vars

\* storage.save() that stops between open(..., "w"), which has truncated the
\* file, and the end of json.dump: the write fails (OSError), a value cannot
\* be encoded (TypeError), or the process is killed.  What is on disk is the
\* empty file or a prefix of the document.
SaveInterrupted ==
    /\ file' = [kind |-> "garbage", doc |-> <<>>]
    /\ err' = "OSError"
    /\ last' = Did("savefail", NoKey, file.kind = "json")
    /\ UNCHANGED <<objects, tmp, wire, now, hist, proc, out>>

NextIO ==
    \/ Next
    \/ SaveInterrupted

IOSpec == Init /\ [][NextIO]_vars

----------------------------------------------------------------------------
(* Several FileStorage instances in one process.  __objects is an attribute *)
(* of the class and every method reads it as FileStorage.__objects, so the *)
(* instance a method is called on does not select the mapping.             *)

\* models.storage and a second FileStorage() made by the caller
Instances == {"storage", "other"}

DidVia(op, key, flag, self) ==
    [op |-> op, key |-> key, flag |-> flag, via |-> self]

\* mutant: all() returns a copy of the mapping
all_copy(self) == [live |-> FALSE, map |-> objects]

\* self.all(): the mapping FileStorage.__objects itself, not a copy
all(self) == [live |-> TRUE, map |-> objects]

\* self.new(cls(**kwargs))
NewVia(self, cls, kwargs) ==
    LET obj == InitFromDict(cls, kwargs) IN
    /\ ~InitRaises(kwargs)
    /\ objects' = new(objects, obj)
    /\ err' = "ok"
    /\ last' = DidVia("new", NewKey(obj), FALSE, self)
    /\ hist' = HistReplace(hist, {NewKey(obj)})
    /\ UNCHANGED <<file, tmp, wire, now, proc, out>>

\* del self.all()[k]
DelVia(self, k) ==
    LET view == all(self) IN
    /\ k \in Keys(view.map)
    /\ objects' = IF view.live THEN Remove(objects, k) ELSE objects
    /\ err' = "ok"
    /\ last' = DidVia("del", k, FALSE, self)
    /\ hist' = IF k # Watched THEN hist
               ELSE [hist EXCEPT !.gone = "pending",
                                 !.dirtyRec = FALSE, !.dirtyEng = FALSE]
    /\ UNCHANGED <<file, tmp, wire, now, proc, out>>

\* self.save()
SaveVia(self) ==
    /\ file' = SavedFile(objects, file)
    /\ hist' = HistFlush(hist)
    /\ err' = "ok"
    /\ last' = DidVia("save", NoKey, FALSE, self)
    /\ UNCHANGED <<objects, tmp, wire, now, proc, out>>

\* self.reload()
ReloadVia(self) ==
    LET res == reload(objects, file) IN
    /\ objects' = res.objs
    /\ err' = res.err
    /\ last' = DidVia("reload", NoKey, objects = <<>>, self)
    /\ hist' = HistReload(hist, ReloadedKeys(file))
    /\ UNCHANGED <<file, tmp, wire, now, proc, out>>

NextShared ==
    \/ Tick
    \/ \E cls \in NewClasses, id \in Uuids : ConstructNew(cls, id)
    \/ \E self \in Instances, cls \in DictClasses, kwargs \in InputDicts :
          NewVia(self, cls, kwargs)
    \/ \E self \in Instances, k \in Keys(objects) : DelVia(self, k)
    \/ \E self \in Instances : SaveVia(self)
    \/ \E self \in Instances : ReloadVia(self)

SharedSpec == Init /\ [][NextShared]_vars

----------------------------------------------------------------------------
(* The command interpreter (console.py).  A command line is the sequence   *)
(* of its whitespace-separated tokens after the command word; printed text *)
(* is a sequence of tokens in the order they are written.                  *)

\* HBNBCommand.dict_of_classes: the class names the commands accept
dict_of_classes ==
    {"BaseModel", "User", "State", "City", "Place", "Amenity", "Review"}

\* class words typed at the prompt: two known classes and an unknown one
ClsTokens == {"User", "BaseModel", "Ghost"}

IdTokens == {"u1", "u2"}

AttrTokens == {"name", "id", "created_at", "updated_at"}

ValTokens == {"v1", "7"}

\* the lines "<Class> <id> <attr> <value> <extra>" and their prefixes
FullLines ==
    {<<c, i, a, v, "x">> :
        c \in ClsTokens, i \in IdTokens, a \in AttrTokens, v \in ValTokens}

Lines(n) == {SubSeq(l, 1, n) : l \in FullLines}

LinesUpTo(n) == UNION {Lines(k) : k \in 0..n}

\* the lines update is tried with: every short line, the lines of three and
\* four tokens that start with a known class, and lines with a fifth token
UpdateLines ==
    LinesUpTo(2)
    \cup {l \in Lines(3) \cup Lines(4) : l[1] \in dict_of_classes}
    \cup {l \in Lines(5) :
             l[1] \in dict_of_classes /\ l[3] = "name" /\ l[4] = "v1"}

\* strings that contain another string of the model as a proper substring
Within == {<<"User", "xUser">>}

\* sub in s, for s and sub strings
HasSubstr(s, sub) == s = sub \/ <<sub, s>> \in Within

\* look_for in key, for a key "Class.id"
InKey(look_for, key) == \E i \in 1..Len(key) : HasSubstr(key[i], look_for)

\* int(value) where it succeeds; the number n is written "int n", apart
\* from every string a token can be
Numeral == ("7" :> "int 7")

\* the value do_update assigns for the token value; no token of the model
\* keeps a double quote at both ends after shlex.split
ConvertValue(value) ==
    IF value \in DOMAIN Numeral THEN Numeral[value] ELSE value

\* str(x) of a dict
StrOf(x) == <<"str", x>>

\* BaseModel.__str__
StrOfRecord(obj) ==
    <<"[", obj.cls, "] (", obj.attrs["id"], ") ", StrOf(obj.attrs)>>

MsgClassMissing == <<"** class name missing **">>
MsgNoClass == <<"** class doesn't exist **">>
MsgIdMissing == <<"** instance id missing **">>
MsgNoInstance == <<"** no instance found **">>
MsgAttrMissing == <<"** attribute name missing **">>
MsgValueMissing == <<"** value missing **">>

\* the checks do_show, do_destroy and do_update start with: the message
\* printed, or <<>> when the line names a stored instance
Rejects(args) ==
    IF Len(args) = 0 THEN MsgClassMissing
    ELSE IF args[1] \notin dict_of_classes THEN MsgNoClass
    ELSE IF Len(args) = 1 THEN MsgIdMissing
    ELSE IF <<args[1], ".", args[2]>> \notin Keys(objects) THEN MsgNoInstance
    ELSE <<>>

DidCmd(op, key, flag, line) ==
    [op |-> op, key |-> key, flag |-> flag, line |-> line]

\* the interpreter after a command that called all(), new() or save()
Used == [proc EXCEPT !.used = TRUE]

\* a file whose one record has an id that contains a class name
NamedIdFile ==
    [kind |-> "json",
     doc |-> <<[key |-> <<"BaseModel", ".", "xUser">>,
                d |-> MkDict("BaseModel", "xUser",
                             [t |-> 1, sp |-> "canon"],
                             [t |-> 1, sp |-> "canon"])]>>]

\* the storage files an earlier session or another program left
ShellFiles == ShortFiles \cup {NamedIdFile}

\* python3 console.py has been started: nothing imported yet
InitShell ==
    /\ objects = <<>>
    /\ file \in ShellFiles
    /\ tmp = <<>>
    /\ wire = <<>>
    /\ now = 1
    /\ err = "ok"
    /\ last = DidCmd("init", NoKey, FALSE, <<>>)
    /\ hist = HistInit(file, now)
    /\ proc = [at |-> "import", reloads |-> 0, used |-> FALSE]
    /\ out = <<>>

\* mutant: the package does not load the file at import
Boot_noReload ==
    /\ proc.at = "import"
    /\ proc' = [proc EXCEPT !.at = "prompt"]
    /\ last' = DidCmd("boot", NoKey, FALSE, <<>>)
    /\ UNCHANGED <<objects, err, file, tmp, wire, now, hist, out>>

\* from models import storage: storage = FileStorage(); storage.reload().
\* An exception of reload() ends the process before the prompt.
Boot ==
    LET res == reload(objects, file) IN
    /\ proc.at = "import"
    /\ objects' = res.objs
    /\ err' = res.err
    /\ proc' = [proc EXCEPT
          !.at = IF res.err = "ok" THEN "prompt" ELSE "exited",
          !.reloads = proc.reloads + 1]
    /\ last' = DidCmd("boot", NoKey, FALSE, <<>>)
    /\ UNCHANGED <<file, tmp, wire, now, hist, out>>

\* quit, EOF
Quit ==
    /\ proc.at = "prompt"
    /\ proc' = [proc EXCEPT !.at = "exited"]
    /\ out' = <<>>
    /\ last' = DidCmd("quit", NoKey, FALSE, <<>>)
    /\ UNCHANGED <<objects, file, tmp, wire, now, err, hist>>

\* the console is started again: a new process, __objects = {}
StartAgain ==
    /\ proc.at = "exited"
    /\ proc' = [at |-> "import", reloads |-> 0, used |-> FALSE]
    /\ objects' = <<>>
    /\ err' = "ok"
    /\ out' = <<>>
    /\ last' = DidCmd("start", NoKey, FALSE, <<>>)
    /\ hist' = [hist EXCEPT
          !.gone = IF hist.gone = "flushed" THEN "past" ELSE hist.gone]
    /\ UNCHANGED <<file, tmp, wire, now>>

\* an empty line
EmptyLine ==
    /\ proc.at = "prompt"
    /\ out' = <<>>
    /\ last' = DidCmd("emptyline", NoKey, FALSE, <<>>)
    /\ UNCHANGED <<objects, file, tmp, wire, now, err, hist, proc>>

\* mutant: the new record is printed but not saved
DoCreate_noSave(args, id) ==
    /\ proc.at = "prompt"
    /\ Len(args) > 0
    /\ args[1] \in dict_of_classes
    /\ \E t2 \in {now, now + 1} :
          LET temp == InitNew(args[1], id, now, t2) IN
          /\ t2 <= MaxClock
          /\ \A i \in 1..Len(objects) : objects[i].obj.attrs["id"] # id
          /\ file.kind = "json" =>
                \A i \in 1..Len(file.doc) : file.doc[i].d["id"] # id
          /\ objects' = new(objects, temp)
          /\ now' = t2
          /\ out' = <<id>>
          /\ proc' = Used
          /\ last' = DidCmd("create", NewKey(temp), FALSE, args)
    /\ err' = "ok"
    /\ UNCHANGED <<file, tmp, wire, hist>>

\* create <args>
DoCreate(args, id) ==
    /\ proc.at = "prompt"
    /\ IF Len(args) = 0 \/ args[1] \notin dict_of_classes
       THEN /\ out' = IF Len(args) = 0 THEN MsgClassMissing ELSE MsgNoClass
            /\ last' = DidCmd("create", NoKey, FALSE, args)
            /\ UNCHANGED <<objects, file, now, proc>>
       ELSE \E t2 \in {now, now + 1}, t3 \in {now, now + 1} :
               LET temp == InitNew(args[1], id, now, t2)
                   saved == Touch(temp, t3) IN
               /\ t2 <= t3
               /\ t3 <= MaxClock
               /\ \A i \in 1..Len(objects) : objects[i].obj.attrs["id"] # id
               /\ file.kind = "json" =>
                     \A i \in 1..Len(file.doc) : file.doc[i].d["id"] # id
               /\ objects' = new(objects, saved)
               /\ file' = SavedFile(objects', file)
               /\ now' = t3
               /\ out' = <<id>>
               /\ proc' = Used
               /\ last' = DidCmd("create", NewKey(temp), FALSE, args)
    /\ err' = "ok"
    /\ UNCHANGED <<tmp, wire, hist>>

\* mutant: show also calls storage.save()
DoShow_saves(args) ==
    /\ proc.at = "prompt"
    /\ Rejects(args) = <<>>
    /\ LET obj_id == <<args[1], ".", args[2]>> IN
       /\ out' = StrOfRecord(Lookup(all("storage").map, obj_id).obj)
       /\ last' = DidCmd("show", obj_id, FALSE, args)
       /\ proc' = Used
       /\ file' = SavedFile(objects, file)
    /\ err' = "ok"
    /\ UNCHANGED <<objects, tmp, wire, now, hist>>

\* show <args>
DoShow(args) ==
    /\ proc.at = "prompt"
    /\ IF Rejects(args) # <<>>
       THEN /\ out' = Rejects(args)
            /\ last' = DidCmd("show", NoKey, FALSE, args)
            /\ proc' = IF Rejects(args) = MsgNoInstance THEN Used ELSE proc
       ELSE LET obj_id == <<args[1], ".", args[2]>> IN
            /\ out' = StrOfRecord(Lookup(all("storage").map, obj_id).obj)
            /\ last' = DidCmd("show", obj_id, FALSE, args)
            /\ proc' = Used
    /\ err' = "ok"
    /\ UNCHANGED <<objects, file, tmp, wire, now, hist>>

\* mutant: the entry is deleted from the mapping and the file is left alone
DoDestroy_noSave(args) ==
    /\ proc.at = "prompt"
    /\ Rejects(args) = <<>>
    /\ LET obj_id == <<args[1], ".", args[2]>> IN
       /\ objects' = Remove(objects, obj_id)
       /\ out' = <<>>
       /\ last' = DidCmd("destroy", obj_id, FALSE, args)
       /\ proc' = Used
       /\ hist' = IF obj_id = Watched THEN [hist EXCEPT !.gone = "flushed"]
                  ELSE hist
    /\ err' = "ok"
    /\ UNCHANGED <<file, tmp, wire, now>>

\* destroy <args>
DoDestroy(args) ==
    /\ proc.at = "prompt"
    /\ IF Rejects(args) # <<>>
       THEN /\ out' = Rejects(args)
            /\ last' = DidCmd("destroy", NoKey, FALSE, args)
            /\ proc' = IF Rejects(args) = MsgNoInstance THEN Used ELSE proc
            /\ UNCHANGED <<objects, file, hist>>
       ELSE LET obj_id == <<args[1], ".", args[2]>> IN
            /\ objects' = Remove(objects, obj_id)
            /\ file' = SavedFile(objects', file)
            /\ out' = <<>>
            /\ last' = DidCmd("destroy", obj_id, FALSE, args)
            /\ proc' = Used
            /\ hist' = IF obj_id = Watched
                       THEN [hist EXCEPT !.gone = "flushed"]
                       ELSE hist
    /\ err' = "ok"
    /\ UNCHANGED <<tmp, wire, now>>

\* the loop of do_all: what it appends to str_all from entry i on
RECURSIVE AllLoop(_, _, _)
AllLoop(objs, look_for, i) ==
    IF i > Len(objs) THEN <<>>
    ELSE (IF InKey(look_for, objs[i].key)
          THEN <<"\"", StrOf(to_dict(objs[i].obj)), "\"", ",", " ">>
          ELSE <<>>) \o AllLoop(objs, look_for, i + 1)

\* the text do_all prints for the filter look_for
AllText(objs, look_for) ==
    LET str_all == <<"[">> \o AllLoop(objs, look_for, 1) IN
    IF Len(objs) = 0 THEN <<"[", "]">>
    ELSE SubSeq(str_all, 1, Len(str_all) - 2) \o <<"]">>

\* all <args>: the whole rest of the line is compared with the class names
DoAll(args) ==
    /\ proc.at = "prompt"
    /\ IF Len(args) > 0 /\ (Len(args) > 1 \/ args[1] \notin dict_of_classes)
       THEN /\ out' = MsgNoClass
            /\ proc' = proc
       ELSE /\ out' = AllText(all("storage").map,
                              IF Len(args) = 0 THEN "." ELSE args[1])
            /\ proc' = Used
    /\ last' = DidCmd("all", NoKey, FALSE, args)
    /\ err' = "ok"
    /\ UNCHANGED <<objects, file, tmp, wire, now, hist>>

\* count(cls_name): the number of stored instances of the class
Count(cls_name) ==
    /\ proc.at = "prompt"
    /\ out' = <<Cardinality({i \in 1..Len(all("storage").map) :
                               objects[i].obj.cls = cls_name})>>
    /\ proc' = Used
    /\ last' = DidCmd("count", NoKey, FALSE, <<cls_name>>)
    /\ err' = "ok"
    /\ UNCHANGED <<objects, file, tmp, wire, now, hist>>

\* mutant: the attribute is assigned and save() is not called
DoUpdate_noSave(args) ==
    /\ proc.at = "prompt"
    /\ Rejects(args) = <<>>
    /\ Len(args) = 4
    /\ args[3] \notin {"id", "created_at", "updated_at"}
    /\ LET obj_id == <<args[1], ".", args[2]>>
           i == IndexOf(objects, obj_id) IN
       /\ objects' = [objects EXCEPT ![i].obj =
                         SetAttrOf(objects[i].obj, args[3],
                                   ConvertValue(args[4]))]
       /\ out' = <<>>
       /\ proc' = Used
       /\ last' = DidCmd("update", obj_id, FALSE, args)
    /\ err' = "ok"
    /\ UNCHANGED <<file, tmp, wire, now, hist>>

\* mutant: the check of the protected names leaves out id
DoUpdate_idWritable(args) ==
    /\ proc.at = "prompt"
    /\ Rejects(args) = <<>>
    /\ Len(args) = 4
    /\ args[3] \notin {"created_at", "updated_at"}
    /\ \E t \in {now, now + 1} :
          LET obj_id == <<args[1], ".", args[2]>>
              i == IndexOf(objects, obj_id)
              set == SetAttrOf(objects[i].obj, args[3], ConvertValue(args[4]))
          IN
          /\ t <= MaxClock
          /\ objects' = [objects EXCEPT ![i].obj = Touch(set, t)]
          /\ file' = SavedFile(objects', file)
          /\ now' = t
          /\ out' = <<>>
          /\ proc' = Used
          /\ last' = DidCmd("update", obj_id, FALSE, args)
    /\ err' = "ok"
    /\ UNCHANGED <<tmp, wire, hist>>

\* update <args>
DoUpdate(args) ==
    /\ proc.at = "prompt"
    /\ IF Rejects(args) # <<>>
       THEN /\ out' = Rejects(args)
            /\ last' = DidCmd("update", NoKey, FALSE, args)
            /\ proc' = IF Rejects(args) = MsgNoInstance THEN Used ELSE proc
            /\ UNCHANGED <<objects, file, now>>
       ELSE LET obj_id == <<args[1], ".", args[2]>> IN
            IF Len(args) < 4
            THEN /\ out' = IF Len(args) = 2 THEN MsgAttrMissing
                           ELSE MsgValueMissing
                 /\ last' = DidCmd("update", obj_id, FALSE, args)
                 /\ proc' = Used
                 /\ UNCHANGED <<objects, file, now>>
            ELSE IF args[3] \in {"id", "created_at", "updated_at"}
                    \/ Len(args) > 4
            THEN /\ out' = <<>>
                 /\ last' = DidCmd("update", obj_id,
                             args[3] \in {"id", "created_at", "updated_at"},
                             args)
                 /\ proc' = Used
                 /\ UNCHANGED <<objects, file, now>>
            ELSE \E t \in {now, now + 1} :
                    LET i == IndexOf(objects, obj_id)
                        set == SetAttrOf(objects[i].obj, args[3],
                                         ConvertValue(args[4])) IN
                    /\ t <= MaxClock
                    /\ objects' = [objects EXCEPT ![i].obj = Touch(set, t)]
                    /\ file' = SavedFile(objects', file)
                    /\ now' = t
                    /\ out' = <<>>
                    /\ proc' = Used
                    /\ last' = DidCmd("update", obj_id, FALSE, args)
    /\ err' = "ok"
    /\ UNCHANGED <<tmp, wire, hist>>

\* the token shlex.split makes of a quoted word followed by a comma
CommaAfter == ("v1" :> "v1,") @@ ("7" :> "7,")

\* commands tried in dot notation
DotCommands == {"all", "count", "show", "destroy", "update", "create"}

\* what default() prints by itself, without calling a command
DefaultPrints(cls_name, command, items) ==
    IF cls_name \notin dict_of_classes THEN MsgNoClass
    ELSE IF command = "update" /\ Len(items) < 2 THEN MsgIdMissing
    ELSE IF command = "update" /\ Len(items) < 3 THEN MsgAttrMissing
    ELSE IF command \notin {"all", "count", "show", "destroy", "update"}
    THEN <<"*** Unknown syntax: ", cls_name, ".", command, "(", items, ")">>
    ELSE <<>>

\* the line default() hands to do_update: "<cls> <id> <attr> <rest>", where
\* rest is everything after the second comma
DotUpdateLine(cls_name, items) ==
    <<cls_name, items[1], items[2]>> \o
    [i \in 1..(Len(items) - 2) |->
        IF i < Len(items) - 2 THEN CommaAfter[items[i + 2]]
        ELSE items[i + 2]]

\* <cls_name>.<command>(<items>): a line that matches no command word and
\* has the form of a call; items are the quoted words between the commas
Default(cls_name, command, items) ==
    IF DefaultPrints(cls_name, command, items) # <<>>
    THEN /\ proc.at = "prompt"
         /\ out' = DefaultPrints(cls_name, command, items)
         /\ last' = DidCmd("default", NoKey, FALSE,
                           <<cls_name, command>> \o items)
         /\ err' = "ok"
         /\ UNCHANGED <<objects, file, tmp, wire, now, hist, proc>>
    ELSE CASE command = "all" -> DoAll(<<cls_name>>)
           [] command = "count" -> Count(cls_name)
           [] command = "show" -> DoShow(<<cls_name>> \o items)
           [] command = "destroy" -> DoDestroy(<<cls_name>> \o items)
           [] command = "update" ->
                 DoUpdate(DotUpdateLine(cls_name, items))

\* time passes while the interpreter waits at the prompt
Wait ==
    /\ proc.at = "prompt"
    /\ now < MaxClock
    /\ now' = now + 1
    /\ out' = <<>>
    /\ last' = DidCmd("wait", NoKey, FALSE, <<>>)
    /\ UNCHANGED <<objects, file, tmp, wire, err, hist, proc>>

NextShell ==
    \/ Boot
    \/ Quit
    \/ StartAgain
    \/ EmptyLine
    \/ Wait
    \/ \E args \in {<<>>} \cup {<<c>> : c \in NewClasses \cup {"Ghost"}},
          id \in Uuids : DoCreate(args, id)
    \/ \E args \in LinesUpTo(2) : DoShow(args)
    \/ \E args \in LinesUpTo(2) : DoDestroy(args)
    \/ \E args \in LinesUpTo(2) : DoAll(args)
    \/ \E args \in UpdateLines : DoUpdate(args)
    \/ \E l \in Lines(1) \cup Lines(2), command \in DotCommands :
          Default(l[1], command, Tail(l))
    \/ \E l \in {u \in UpdateLines : u # <<>> /\ u[1] # "BaseModel"} :
          Default(l[1], "update", Tail(l))

ShellSpec == InitShell /\ [][NextShell]_vars

----------------------------------------------------------------------------
(* The record contract on its own: one record of any class, converted to a *)
(* transport dict and back                                                 *)

AllRecords ==
    {[cls |-> c,
      attrs |-> ("id" :> id) @@ ("created_at" :> ca) @@ ("updated_at" :> ua)] :
        c \in classes, id \in Uuids \cup InputIds,
        ca \in 0..MaxClock, ua \in 0..MaxClock}

InitRecord ==
    /\ objects = <<>>
    /\ file = [kind |-> "absent", doc |-> <<>>]
    /\ tmp \in {<<r>> : r \in AllRecords}
    /\ wire = <<>>
    /\ now = 1
    /\ err = "ok"
    /\ last = Did("init", NoKey, FALSE)
    /\ hist = HistInit(file, now)
    /\ proc = NoShell
    /\ out = <<>>

\* r.name = v on the record the caller holds
AssignName(v) ==
    /\ tmp' = <<SetAttrOf(tmp[1], "name", v)>>
    /\ err' = "ok"
    /\ last' = Did("setattr", NoKey, FALSE)
    /\ UNCHANGED <<objects, file, wire, now, hist, proc, out>>

\* d = r.to_dict()
ToDict ==
    /\ wire' = <<to_dict(tmp[1])>>
    /\ err' = "ok"
    /\ last' = Did("to_dict", NoKey, FALSE)
    /\ UNCHANGED <<objects, file, tmp, now, hist, proc, out>>

\* r = cls(**d), cls the class d names
FromDict ==
    /\ wire # <<>>
    /\ IF InitRaises(wire[1])
       THEN /\ err' = "ValueError"
            /\ UNCHANGED tmp
       ELSE /\ err' = "ok"
            /\ tmp' = <<InitFromDict(wire[1]["__class__"], wire[1])>>
    /\ last' = Did("fromdict", NoKey, FALSE)
    /\ UNCHANGED <<objects, file, wire, now, hist, proc, out>>

NextRecord ==
    \/ \E v \in Values : AssignName(v)
    \/ ToDict
    \/ FromDict

RecordSpec == InitRecord /\ [][NextRecord]_vars

----------------------------------------------------------------------------
(* Properties *)

Objs == {objects[i].obj : i \in 1..Len(objects)}

HasName(obj) == "name" \in DOMAIN obj.attrs

\* save() followed by reload() in a fresh process reproduces the mapping objs
RoundTrips(objs) ==
    LET res == reload(<<>>, SavedFile(objs, file)) IN
    /\ res.err = "ok"
    /\ Keys(res.objs) = Keys(objs)
    /\ \A k \in Keys(objs) :
          to_dict(Lookup(res.objs, k).obj) = to_dict(Lookup(objs, k).obj)

\* C1: for every reachable registry, the engine's save() followed by reload()
\* into the empty registry of a fresh process yields the same set of keys and,
\* key by key, records with the same to_dict().
C1_PersistenceRoundTrip == RoundTrips(objects)

\* a fresh process has just reloaded a file that save() wrote from two
\* records, one of them with a custom attribute
C1_Witness ==
    /\ last = Did("reload", NoKey, TRUE)
    /\ err = "ok"
    /\ Len(objects) = 2
    /\ \E o \in Objs : HasName(o)
    /\ file.doc = SaveDoc(objects)

\* C2: once the watched key was deleted and the engine's save() completed,
\* no reload() puts a record under that key back, as long as nobody
\* registers a record under it again.
C2_DeletionDurable == hist.gone = "flushed" => Watched \notin Keys(objects)

\* the record was the only one, was deleted and flushed, and a fresh process
\* has reloaded: the registry is empty
C2_Witness ==
    /\ hist.gone = "flushed"
    /\ last = Did("reload", NoKey, TRUE)
    /\ file.kind = "json" /\ file.doc = <<>>
    /\ objects = <<>>

\* the value of the attribute "name" of the watched record is on disk
WatchedOnDisk ==
    /\ Watched \in Keys(objects)
    /\ HasName(Lookup(objects, Watched).obj)
    /\ FileHolds(file, Watched, Lookup(objects, Watched).obj.attrs["name"])

\* C3 as stated: while the watched record was mutated and its own save() was
\* not called since, the file's entry for it does not hold the mutated value.
C3_UnsavedNotOnDisk == hist.dirtyRec => ~WatchedOnDisk

\* C3 as amended: while the watched record was mutated and no save() of the
\* engine (through any record's save() or directly) completed since, the
\* file's entry for it does not hold the mutated value.
C3_UnflushedNotOnDisk == hist.dirtyEng => ~WatchedOnDisk

\* the watched record carries a mutation that is in memory and on no disk,
\* next to another record in the registry
C3_Witness ==
    /\ hist.dirtyEng
    /\ Watched \in Keys(objects)
    /\ HasName(Lookup(objects, Watched).obj)
    /\ Len(objects) = 2
    /\ file.kind = "json" /\ Watched \in Keys(file.doc)

\* the file holds an entry whose __class__ is in no dispatch table
HasUnknown(f) ==
    /\ f.kind = "json"
    /\ \E i \in 1..Len(f.doc) : f.doc[i].d["__class__"] \notin classes

FirstUnknown(f) ==
    CHOOSE i \in 1..Len(f.doc) :
        /\ f.doc[i].d["__class__"] \notin classes
        /\ \A j \in 1..(i - 1) : f.doc[j].d["__class__"] \in classes

\* reload() has just run on the current file
Reloaded == last.op = "reload"

\* C4 as stated: reload() on a file with an entry of an unknown class ends in
\* the dispatch error (KeyError).
C4_UnknownClassDispatchError ==
    Reloaded /\ HasUnknown(file) => err = "KeyError"

\* C4 as amended: reload() on a file with an entry of an unknown class never
\* returns normally and never skips the entry; the error is the dispatch
\* error (KeyError) unless an entry before the first unknown one already
\* makes reload() fail, and then it is that entry's error.
C4_UnknownClassSurfaced ==
    Reloaded /\ HasUnknown(file) =>
        /\ err # "ok"
        /\ err = EntryError(file.doc[FirstBad(file.doc)])
        /\ FirstBad(file.doc) <= FirstUnknown(file)
        /\ FirstBad(file.doc) = FirstUnknown(file) => err = "KeyError"

\* reload() has failed with the dispatch error on a file whose second entry
\* is of an unknown class
C4_Witness ==
    /\ Reloaded
    /\ HasUnknown(file)
    /\ Len(file.doc) = 2 /\ FirstUnknown(file) = 2
    /\ err = "KeyError"

\* C5: a reload() that fails leaves the registry as it was before the call.
C5_ReloadAllOrNothing ==
    [][last'.op = "reload" /\ err' # "ok" => objects' = objects]_vars

\* the derived key of a file entry, and the record reload() builds from it
DerivedKey(e) == <<e.d["__class__"], ".", e.d["id"]>>

Rebuilt(e) == InitFromDict(e.d["__class__"], e.d)

\* C6 as stated: after a successful reload() into an empty registry the
\* registry's keys are the file's keys.
C6_ReloadKeysVerbatim ==
    last = Did("reload", NoKey, TRUE) /\ err = "ok" /\ file.kind = "json"
        => Keys(objects) = Keys(file.doc)

\* C6 as amended: after a successful reload() every entry (k, d) of the file
\* is registered under the key derived from d, __class__ + "." + id, whatever
\* k is; the record there is the one built from the last entry with that
\* derived key, and a reload into an empty registry yields exactly the
\* derived keys.
C6_ReloadKeysDerived ==
    Reloaded /\ err = "ok" /\ file.kind = "json" =>
        /\ \A i \in 1..Len(file.doc) :
              /\ DerivedKey(file.doc[i]) \in Keys(objects)
              /\ (\A j \in (i + 1)..Len(file.doc) :
                     DerivedKey(file.doc[j]) # DerivedKey(file.doc[i]))
                 => Lookup(objects, DerivedKey(file.doc[i])).obj
                       = Rebuilt(file.doc[i])
        /\ last.flag =>
              Keys(objects) = {DerivedKey(file.doc[i]) : i \in 1..Len(file.doc)}

\* a fresh process has reloaded a file whose entry has a key of another form
C6_Witness ==
    /\ last = Did("reload", NoKey, TRUE)
    /\ err = "ok"
    /\ file.kind = "json"
    /\ \E i \in 1..Len(file.doc) : file.doc[i].key # DerivedKey(file.doc[i])
    /\ objects # <<>>

InOrder(obj) == obj.attrs["updated_at"] >= obj.attrs["created_at"]

SavedBefore == Lookup(objects, last'.key).obj

SavedAfter == Lookup(objects', last'.key).obj

C9_LastWriteWins ==
    [][last'.op = "new" /\ last'.key \in Keys(objects) =>
          \A cls \in DictClasses, kwargs \in InputDicts :
             (NewFromDict(cls, kwargs) /\ ~InitRaises(kwargs))
             => LET b == InitFromDict(cls, kwargs)
                    key == NewKey(b) IN
                /\ key = last'.key
                /\ Len(objects') = Len(objects)
                /\ Cardinality({i \in 1..Len(objects') :
                                   objects'[i].key = key}) = 1
                /\ Lookup(objects', key).obj = b
                /\ \A i \in 1..Len(objects) :
                      objects[i].key # key => objects'[i] = objects[i]]_vars

\* new(b) has replaced a different record a of the same key, next to another
\* entry
C9_Witness ==
    /\ last.op = "new" /\ last.flag
    /\ Len(objects) = 2

\* Construct-from-dict(r.to_dict()) for the record r
Reconstructed(r) == InitFromDict(r.cls, to_dict(r))

\* C10: for the record r the caller holds, of any class and with any fields,
\* Construct-from-dict(r.to_dict()) succeeds and yields a record whose
\* to_dict() equals r.to_dict(); to_dict() carries __class__ equal to the
\* class name, and the reconstructed instance has no attribute __class__.
C10_RecordRoundTrip ==
    \A i \in 1..Len(tmp) :
        /\ ~InitRaises(to_dict(tmp[i]))
        /\ to_dict(Reconstructed(tmp[i])) = to_dict(tmp[i])
        /\ to_dict(tmp[i])["__class__"] = tmp[i].cls
        /\ "__class__" \notin DOMAIN Reconstructed(tmp[i]).attrs
        /\ last.op = "fromdict" =>
              /\ err = "ok"
              /\ to_dict(tmp[i]) = wire[1]
              /\ "__class__" \notin DOMAIN tmp[i].attrs

\* a Place with a custom attribute has been rebuilt from its own to_dict()
C10_Witness ==
    /\ last.op = "fromdict"
    /\ tmp[1].cls = "Place"
    /\ HasName(tmp[1])
    /\ tmp[1].attrs["updated_at"] # tmp[1].attrs["created_at"]
    /\ wire[1] = to_dict(tmp[1])

----------------------------------------------------------------------------
\* C11: Construct-from-dict leaves the registry as it is (no entry inserted,
\* none replaced); whenever a key enters the registry, the step was a
\* Construct-new, a new() or a reload().
C11_FromDictLeavesRegistry ==
    [][/\ last'.op = "fromdict" => objects' = objects
       /\ (Len(objects') > Len(objects)
           \/ ~(Keys(objects') \subseteq Keys(objects))) =>
              last'.op \in {"construct", "new", "reload"}]_vars

\* a record was built from a dict that carries the id of a registered record
C11_Witness ==
    /\ last.op = "fromdict"
    /\ err = "ok"
    /\ last.flag
    /\ last.key \in Keys(objects)

----------------------------------------------------------------------------
\* C12: at the end of every Construct-new the record is registered under
\* "TypeName.id" and its created_at equals its updated_at (both are the one
\* current time of the construction).
C12_CreatedEqualsUpdated ==
    last.op = "construct" =>
        /\ last.key \in Keys(objects)
        /\ LET obj == Lookup(objects, last.key).obj IN
           /\ last.key = <<obj.cls, ".", obj.attrs["id"]>>
           /\ obj.attrs["created_at"] = obj.attrs["updated_at"]

----------------------------------------------------------------------------
\* C13: after save() of the engine (called directly or through a record's
\* save()) the file is a JSON document whose keys are exactly the keys of
\* the registry and whose value at each key is to_dict() of the registered
\* record; nothing of the earlier file is left.
C13_SaveOverwrites ==
    last.op \in {"save", "rsave"} =>
        /\ file.kind = "json"
        /\ DistinctKeys(file.doc)
        /\ Keys(file.doc) = Keys(objects)
        /\ \A k \in Keys(objects) :
              Lookup(file.doc, k).d = to_dict(Lookup(objects, k).obj)

\* a save() over a file that held the entry of a record deleted since, with
\* other records registered
C13_Witness ==
    /\ last.op = "save"
    /\ hist.gone = "flushed"
    /\ objects # <<>>
    /\ Watched \notin Keys(file.doc)

----------------------------------------------------------------------------
\* C14: the move from memory to disk is atomic: every step, a save() that
\* fails or stops after opening the file included, leaves on disk either the
\* complete previous content or the complete snapshot of the registry, never
\* an empty or partial file.
C14_SaveAtomic ==
    [][\/ file' = file
       \/ file' = [kind |-> "json", doc |-> SaveDoc(objects')]]_vars

----------------------------------------------------------------------------
\* C15: reload() while the storage file does not exist raises no error,
\* leaves the registry exactly as it was and does not create the file.
C15_ReloadNoFile ==
    [][(last'.op = "reload" /\ file.kind = "absent") =>
          /\ err' = "ok"
          /\ objects' = objects
          /\ file' = file]_vars

\* reload() ran with records registered and no file on disk
C15_Witness ==
    /\ last.op = "reload"
    /\ file.kind = "absent"
    /\ objects # <<>>
    /\ err = "ok"

----------------------------------------------------------------------------
\* C19: a successful reload() clears the registry and replaces it with the
\* loaded data: afterwards the registry holds exactly the records of the
\* file, so an entry registered before the call and absent from the file is
\* gone.
C19_ReloadReplaces ==
    [][(last'.op = "reload" /\ err' = "ok" /\ file.kind = "json") =>
          Keys(objects') = ReloadedKeys(file)]_vars

----------------------------------------------------------------------------
----------------------------------------------------------------------------
\* C16: in every run of the console reload() is executed at most once and
\* before any all(), new() or save() of the engine; no command typed at the
\* prompt runs reload() again.
C16_ReloadOnceAtStart ==
    [][/\ proc'.reloads <= 1
       /\ proc'.used => proc'.reloads = 1
       /\ proc'.reloads > proc.reloads => ~proc.used
       /\ proc.at = "prompt" => proc'.reloads = proc.reloads]_vars

\* a command changed a stored record in a process that loaded the file once
C16_Witness ==
    /\ proc.used
    /\ proc.reloads = 1
    /\ last.op = "update"
    /\ last.key \in Keys(objects)
    /\ Len(last.line) = 4
    /\ last.line[3] = "name"

----------------------------------------------------------------------------
\* C17: no command of the console, with the save() calls it makes, changes
\* the id or the created_at of a stored record; update with the attribute
\* name id, created_at or updated_at changes neither the registry nor the
\* file.
C17_IdCreatedImmutable ==
    [][/\ objects' # objects =>
             \A k \in Keys(objects) \cap Keys(objects') :
                LET old == Lookup(objects, k).obj.attrs
                    cur == Lookup(objects', k).obj.attrs IN
                /\ cur["id"] = old["id"]
                /\ cur["created_at"] = old["created_at"]
       /\ (last'.op = "update" /\ last'.flag) =>
             (objects' = objects /\ file' = file)]_vars

\* update of created_at was typed for a stored record
C17_Witness ==
    /\ last.op = "update"
    /\ last.flag
    /\ last.key \in Keys(objects)
    /\ last.line[3] = "created_at"

----------------------------------------------------------------------------
\* C20: all <Class> for a known class prints "[]" whenever no instance of
\* the class is stored, whether the registry is empty or holds records of
\* other classes.
C20_AllClassPrintsEmptyList ==
    (/\ last.op = "all"
     /\ Len(last.line) = 1
     /\ last.line[1] \in dict_of_classes
     /\ \A i \in 1..Len(objects) : objects[i].obj.cls # last.line[1]) =>
        out = <<"[", "]">>

----------------------------------------------------------------------------
\* the record r is one of the entries of the list that all printed
Listed(text, r) ==
    /\ Len(text) >= 5
    /\ \E j \in 0..((Len(text) \div 5) - 1) :
          text[5 * j + 3] = StrOf(to_dict(r))

\* C21: all <Class> lists a stored record if and only if the record is an
\* instance of <Class>, and all without argument lists every stored record,
\* whatever the registry holds (records loaded from the file whose id
\* contains a class name included).
C21_AllListsInstances ==
    (/\ last.op = "all"
     /\ Len(last.line) <= 1
     /\ Len(last.line) = 1 => last.line[1] \in dict_of_classes) =>
        \A i \in 1..Len(objects) :
           Listed(out, objects[i].obj) <=>
              (Len(last.line) = 0 \/ objects[i].obj.cls = last.line[1])

----------------------------------------------------------------------------
\* C22: update processes the first four arguments only: a line of more than
\* four tokens that names a stored record and an attribute other than id,
\* created_at and updated_at sets the attribute to the value of the fourth
\* token and persists it; the further tokens are ignored.
C22_UpdateIgnoresExtras ==
    (/\ last.op = "update"
     /\ Len(last.line) > 4
     /\ last.key \in Keys(objects)
     /\ last.line[3] \notin {"id", "created_at", "updated_at"}) =>
        LET attrs == Lookup(objects, last.key).obj.attrs IN
        /\ last.line[3] \in DOMAIN attrs
        /\ attrs[last.line[3]] = ConvertValue(last.line[4])
        /\ file = SavedFile(objects, file)

----------------------------------------------------------------------------
\* C23: create <Class> for a known class adds exactly one entry to the
\* registry, under the key <Class>.<new id>, leaves every other entry as it
\* was, writes a file that holds the new entry, and prints the id of the new
\* record, which no record registered before has.
C23_CreateAddsOne ==
    [][(last'.op = "create" /\ last'.key # NoKey) =>
          LET n == Len(objects)
              id == out'[1] IN
          /\ Len(out') = 1
          /\ Len(objects') = n + 1
          /\ SubSeq(objects', 1, n) = objects
          /\ objects'[n + 1].key = <<last'.line[1], ".", id>>
          /\ objects'[n + 1].obj.cls = last'.line[1]
          /\ objects'[n + 1].obj.attrs["id"] = id
          /\ \A i \in 1..n : objects[i].obj.attrs["id"] # id
          /\ file'.kind = "json"
          /\ objects'[n + 1].key \in Keys(file'.doc)
          /\ Lookup(file'.doc, objects'[n + 1].key).d =
                to_dict(objects'[n + 1].obj)]_vars

\* create added a record next to one loaded from the file
C23_Witness ==
    /\ last.op = "create"
    /\ last.key \in Keys(objects)
    /\ Len(objects) = 2
    /\ out = <<"u2">>

----------------------------------------------------------------------------
\* C24: destroy <Class> <id> for a stored record removes exactly that entry
\* from the registry and from the file and prints nothing; from then on, in
\* the same session and in every later one, destroy and show of that class
\* and id print "** no instance found **".
C24_DestroyLasts ==
    [][/\ (last'.op = "destroy" /\ last'.key # NoKey) =>
             /\ last'.key \in Keys(objects)
             /\ objects' = Remove(objects, last'.key)
             /\ Remove(objects', last'.key) = objects'
             /\ file'.kind = "json"
             /\ Keys(file'.doc) = Keys(objects) \ {last'.key}
             /\ out' = <<>>
       /\ (/\ hist.gone \in {"flushed", "past"}
           /\ last'.op \in {"show", "destroy"}
           /\ last'.line = <<Watched[1], Watched[3]>>) =>
             out' = MsgNoInstance]_vars

\* show of a record that was destroyed in an earlier session
C24_Witness ==
    /\ hist.gone = "past"
    /\ last.op = "show"
    /\ last.line = <<Watched[1], Watched[3]>>
    /\ proc.reloads = 1
    /\ objects # <<>>

\* C25: <Class>.create() for a known class creates and saves a new record
\* and prints its id, as create <Class> does: after the call the one token
\* printed is the id of an entry of that class held by the mapping and by
\* the file
C25_DotCreateCreates ==
    (/\ last.op = "default"
     /\ Len(last.line) = 2
     /\ last.line[2] = "create"
     /\ last.line[1] \in dict_of_classes) =>
        /\ Len(out) = 1
        /\ <<last.line[1], ".", out[1]>> \in Keys(objects)
        /\ file.kind = "json"
        /\ <<last.line[1], ".", out[1]>> \in Keys(file.doc)

\* C26: a call in dot notation prints what the standard form of the same
\* command prints, calls with missing arguments included: when default()
\* answers <Class>.update(<items>) for a known class, the message is the one
\* update <Class> <items> ends with in the same mapping
C26_DotUpdateSameMessage ==
    (/\ last.op = "default"
     /\ Len(last.line) >= 2
     /\ last.line[2] = "update"
     /\ last.line[1] \in dict_of_classes) =>
        LET args == <<last.line[1]>> \o SubSeq(last.line, 3, Len(last.line))
        IN out = IF Rejects(args) # <<>> THEN Rejects(args)
                 ELSE IF Len(args) = 2 THEN MsgAttrMissing
                 ELSE MsgValueMissing

\* C27: once the interpreter has started, after every command each entry of
\* the mapping is kept under the class name of its record, a dot and the
\* record's id, and no two entries hold records of the same class and id
C27_KeysNameRecords ==
    proc.at # "import" =>
        /\ \A i \in 1..Len(objects) :
              /\ "id" \in DOMAIN objects[i].obj.attrs
              /\ objects[i].key =
                    <<objects[i].obj.cls, ".", objects[i].obj.attrs["id"]>>
        /\ \A i, j \in 1..Len(objects) :
              (/\ objects[i].obj.cls = objects[j].obj.cls
               /\ objects[i].obj.attrs["id"] = objects[j].obj.attrs["id"])
                 => i = j

\* a record loaded from a file and a record created in the session are both
\* held, and an update has just set an attribute of one of them
C27_Witness ==
    /\ proc.at = "prompt"
    /\ Len(objects) = 2
    /\ last.op = "update"
    /\ last.key \in Keys(objects)
    /\ "name" \in DOMAIN Lookup(objects, last.key).obj.attrs

\* C28: memory and disk agree after create, destroy and update: when one of
\* them has ended without a message, the file holds the keys of the mapping
\* and, under each key, to_dict() of the record the mapping holds
C28_MemoryDiskAgree ==
    (\/ last.op = "create" /\ last.key # NoKey
     \/ last.op \in {"destroy", "update"} /\ last.key # NoKey /\ out = <<>>)
    =>
        /\ file.kind = "json"
        /\ Keys(file.doc) = Keys(objects)
        /\ \A k \in Keys(objects) :
              Lookup(file.doc, k).d = to_dict(Lookup(objects, k).obj)

\* C28, amended: memory and disk agree after every command that calls
\* save(): when create, destroy, or update of an attribute other than id,
\* created_at and updated_at typed with exactly four arguments has ended
\* without a message, the file holds the keys of the mapping and, under each
\* key, to_dict() of the record the mapping holds, the updated_at that
\* save() set included
C28_SavingCommandsAgree ==
    (\/ last.op = "create" /\ last.key # NoKey
     \/ last.op = "destroy" /\ last.key # NoKey /\ out = <<>>
     \/ /\ last.op = "update"
        /\ last.key # NoKey
        /\ out = <<>>
        /\ ~last.flag
        /\ Len(last.line) = 4)
    =>
        /\ file.kind = "json"
        /\ Keys(file.doc) = Keys(objects)
        /\ \A k \in Keys(objects) :
              Lookup(file.doc, k).d = to_dict(Lookup(objects, k).obj)

\* update has set the name of a stored record at time 2, and the file
\* holds the record with that time
C28_Witness ==
    /\ last.op = "update"
    /\ ~last.flag
    /\ Len(last.line) = 4
    /\ last.key \in Keys(objects)
    /\ last.key \in Keys(file.doc)
    /\ proc.reloads = 1
    /\ "name" \in DOMAIN Lookup(objects, last.key).obj.attrs
    /\ Lookup(objects, last.key).obj.attrs["updated_at"] = 2
    /\ Lookup(file.doc, last.key).d["updated_at"] = [t |-> 2, sp |-> "canon"]

\* C29: commands that only read and commands that are rejected have no
\* effect: show, all, count, an empty line, and every create, show, destroy
\* and update that ends with one of the six messages leave the mapping, the
\* fields of every record and the file as they were
C29_ReadOnlyAndRejected ==
    [][(\/ last'.op \in {"show", "all", "count", "emptyline"}
        \/ /\ last'.op \in {"create", "destroy", "update", "default"}
           /\ out' \in {MsgClassMissing, MsgNoClass, MsgIdMissing,
                        MsgNoInstance, MsgAttrMissing, MsgValueMissing})
       => (objects' = objects /\ file' = file)]_vars

\* update was rejected for a missing value while the mapping held a record
\* and the file was not the dump of the mapping
C29_Witness ==
    /\ last.op = "update"
    /\ out = MsgValueMissing
    /\ objects # <<>>
    /\ file # SavedFile(objects, file)

====
